---- MODULE Spec2Model ----
(***************************************************************************)
(* Decode orchestration of the codec command line tools:                   *)
(* DecodeFile and DecodeFeatures of src/encoder_main.cc (decoder_main_lib  *)
(* part), as a state machine.  Each action is one step of the two          *)
(* functions.  AbslParseFlag of the packet loss pattern and main of the    *)
(* encoder are two further state machines over their own variables.        *)
(* The decoder (LyraDecoder), the two packet loss models, the              *)
(* hop/packet size helpers and the WAV writer are not part of the source   *)
(* at hand; they are modelled from the written design and are marked so.   *)
(*                                                                         *)
(* Abstractions: a byte stream is its length (packets are identified by    *)
(* their byte range), decoded_audio is its number of samples, seconds are  *)
(* integer milliseconds, the loss rate is an integer percentage.           *)
(***************************************************************************)
EXTENDS Integers, Sequences, FiniteSets, TLC

\* ------------------------------------------------------------------ bounds
\* Largest number of whole packets in an encoded file of the general model.
MaxPackets == 2
\* The decoder may return up to this many samples fewer than were requested.
MaxShortfall == 1
\* Random draws of the pull size are taken within this distance of the hop size.
MaxDrawGap == 1
\* Sample rates of the bitrate arithmetic: 8000 Hz times 1..MaxRateMultiple.
MaxRateMultiple == 6
\* Largest number of comma-separated fields of a packet loss pattern text.
MaxFields == 4

\* ------------------------------------------------------- program constants
\* sample_rate_hz/320: the number of hops (packets) per second.
kHopRateDivisor == 320
\* multiple = sample_rate_hz/8000
kBaseSampleRateHz == 8000
\* the two cost units of the bitrate table, per multiple
kU1 == 1600
kU2 == 1400
kMaxNumPacketBits == 480

Min(a, b) == IF a < b THEN a ELSE b
Max(a, b) == IF a < b THEN b ELSE a

\* ---------------------------------------------------------------- helpers
\* GetNumSamplesPerHop(sample_rate_hz, frame_rate): samples of one hop.
GetNumSamplesPerHop(rate, frame_rate) == rate \div frame_rate

FrameRate_PerThreeHundred(rate) == rate \div (kHopRateDivisor - 20)
FrameRate(rate) == rate \div kHopRateDivisor

BitrateForPreset_SeventhTooLarge(preset, multiple) ==
  CASE preset = 1 -> kU1 * multiple
    [] preset = 2 -> (kU2 * multiple) + (kU1 * multiple)
    [] preset = 3 -> (kU2 * multiple) + (kU1 * multiple) * 2
    [] preset = 4 -> (kU2 * multiple) * 2 + (kU1 * multiple) * 2
    [] preset = 5 -> (kU2 * multiple) * 2 + (kU1 * multiple) * 3
    [] preset = 6 -> (kU2 * multiple) * 3 + (kU1 * multiple) * 3
    [] preset = 7 -> (kU2 * multiple) * 4 + (kU1 * multiple) * 5
    [] preset = 8 -> (kU2 * multiple) * 4 + (kU1 * multiple) * 4
    [] OTHER -> 0
\* The if/else chain of DecodeFile: 0 for a preset outside 1..8.
BitrateForPreset(preset, multiple) ==
  CASE preset = 1 -> kU1 * multiple
    [] preset = 2 -> (kU2 * multiple) + (kU1 * multiple)
    [] preset = 3 -> (kU2 * multiple) + (kU1 * multiple) * 2
    [] preset = 4 -> (kU2 * multiple) * 2 + (kU1 * multiple) * 2
    [] preset = 5 -> (kU2 * multiple) * 2 + (kU1 * multiple) * 3
    [] preset = 6 -> (kU2 * multiple) * 3 + (kU1 * multiple) * 3
    [] preset = 7 -> (kU2 * multiple) * 3 + (kU1 * multiple) * 4
    [] preset = 8 -> (kU2 * multiple) * 4 + (kU1 * multiple) * 4
    [] OTHER -> 0

\* BitrateToPacketSize(bitrate, frame_rate): bits per second to bits per hop
\* to bytes.
BitrateToPacketSize(rate_bps, frame_rate) == (rate_bps \div frame_rate) \div 8

PacketSizeFor(preset, rate) ==
  BitrateToPacketSize(BitrateForPreset(preset, rate \div kBaseSampleRateHz),
                      FrameRate(rate))


\* ------------------------------------------------------ packet loss models
\* GilbertModel::Create(packet_loss_rate, average_burst_length): null unless
\* the loss rate is in [0,1) and the burst length is at least one packet.
GilbertCreateOk(loss_pct, burst) == loss_pct >= 0 /\ loss_pct < 100 /\ burst >= 1

\* One step of the two-state chain.  Leaving "bad" has probability 1/L,
\* entering it from "good" has probability p/(L(1-p)); a transition is
\* possible exactly when its probability is not zero.
GilbertNextStates(st, loss_pct, burst) ==
  IF st = "good"
    THEN (IF loss_pct > 0 THEN {"bad"} ELSE {})
         \cup (IF loss_pct < burst * (100 - loss_pct) THEN {"good"} ELSE {})
    ELSE {"good"} \cup (IF burst > 1 THEN {"bad"} ELSE {})

\* FixedPacketLossModel: the window of packet i, [i*hop, (i+1)*hop), against
\* the interval [start, start+duration).  Times are compared in units of
\* 1/(1000*rate) seconds, so that no quotient is rounded.
WindowIntersects(i, rate, hop, start_ms, duration_ms) ==
  Max(i * hop * 1000, start_ms * rate)
    < Min((i + 1) * hop * 1000, (start_ms + duration_ms) * rate)

FixedIsPacketReceived(i, rate, hop, pattern) ==
  ~ \E j \in 1..Len(pattern.starts_) :
        WindowIntersects(i, rate, hop, pattern.starts_[j], pattern.durations_[j])

\* ---------------------------------------------------------------- decoder
\* std::nullopt
NullOpt == -1
\* What LyraDecoder::DecodeSamples(n) may return: no value, or a vector of
\* at most n samples (its size is what the loop reads).
DecodeSamplesOutcomes(n) ==
  {NullOpt} \cup {s \in 0..n : s >= n - MaxShortfall}

\* ------------------------------------------------------------------ inputs
SampleRates == {8000, 16000}
QualityPresets == 0..9
NoPattern == [starts_ |-> << >>, durations_ |-> << >>]
Patterns ==
  {NoPattern,
   [starts_ |-> <<0>>, durations_ |-> <<20>>],
   [starts_ |-> <<30>>, durations_ |-> <<20>>]}
\* <<packet_loss_rate in percent, average_burst_length in packets>>
GilbertParams == {<<0, 1>>, <<50, 2>>, <<100, 1>>, <<10, 0>>}

\* absl::Uniform(IntervalOpenClosed, gen, 0, n): a value of 1..n; the values
\* tried are the ones near n, and n/2.
UniformDraws(n) == {d \in 1..n : d >= n - MaxDrawGap \/ d = n \div 2}

\* Lengths of the encoded file tried for a packet size: whole packets, and
\* whole packets followed by a partial one.
FileSizes(ps) ==
  IF ps = 0 THEN {0, 1, 8}
  ELSE {k * ps + r : k \in 0..MaxPackets, r \in {0, 1, ps - 1}}

VARIABLES
  \* arguments of the call
  entry,                            \* "DecodeFile" or "DecodeFeatures"
  sample_rate_hz, quality_preset, randomize_num_samples_requested,
  packet_loss_rate, average_burst_length, fixed_packet_loss_pattern,
  encoded_file_size,                \* bytes in the file at encoded_path
  gen,                              \* values the generator may yield
  \* position and result
  pc, result,
  \* DecodeFile
  packet_loss_model,                \* "null", "gilbert" or "fixed"
  packet_stream_size, bitrate, packet_size, stream_size_remainder,
  \* state of the loss model
  gilbert_state, num_calls,
  \* DecodeFeatures
  encoded_index, received, samples_decoded_so_far, samples_to_request,
  decoded_audio, features_ok,
  \* what happened (history)
  received_log, submitted, hop_audio_start, hop_short_return, decoder_error,
  preset_error_logged, trim_warning_logged, wav_writer_called, file_opened,
  hop_pulls,                        \* pulls of the hop, while all were exact
  \* AbslParseFlag(text, pattern, error)
  text, flag_pattern, error, parse_result,   \* flag_pattern is *pattern
  \* main of the encoder
  main_pc, input_path, output_dir, output_dir_exists, encode_file_calls,
  encode_file_result, exit_status

args == <<entry, sample_rate_hz, quality_preset, randomize_num_samples_requested,
          packet_loss_rate, average_burst_length, fixed_packet_loss_pattern,
          encoded_file_size, gen>>
file_vars == <<packet_loss_model, packet_stream_size, bitrate, packet_size,
               stream_size_remainder>>
model_vars == <<gilbert_state, num_calls>>
loop_vars == <<encoded_index, received, samples_decoded_so_far,
               samples_to_request, decoded_audio, features_ok>>
hist_vars == <<received_log, submitted, hop_audio_start,
               hop_short_return, decoder_error, preset_error_logged, trim_warning_logged,
               wav_writer_called, file_opened, hop_pulls>>
decode_vars == <<args, pc, result, file_vars, model_vars, loop_vars,
                 hist_vars>>
flag_vars == <<text, flag_pattern, error, parse_result>>
main_vars == <<main_pc, input_path, output_dir, output_dir_exists,
               encode_file_calls, encode_file_result, exit_status>>
cli_vars == <<flag_vars, main_vars>>
vars == <<decode_vars, cli_vars>>

num_samples_per_packet ==
  GetNumSamplesPerHop(sample_rate_hz, FrameRate(sample_rate_hz))

\* frame_index = encoded_index / packet_size (the loop runs with packet_size > 0)
frame_index == IF packet_size = 0 THEN 0 ELSE encoded_index \div packet_size

InitLocals ==
  /\ result = "none"
  /\ bitrate = 0 /\ stream_size_remainder = 0
  /\ gilbert_state = "good" /\ num_calls = 0
  /\ encoded_index = 0 /\ received = TRUE
  /\ samples_decoded_so_far = 0 /\ samples_to_request = 0
  /\ decoded_audio = 0 /\ features_ok = TRUE
  /\ received_log = << >> /\ submitted = << >>
  /\ hop_audio_start = 0 /\ hop_short_return = FALSE /\ hop_pulls = 0
  /\ decoder_error = "none"
  /\ preset_error_logged = FALSE /\ trim_warning_logged = FALSE
  /\ wav_writer_called = FALSE /\ file_opened = FALSE

\* Neither the flag parser nor the encoder's main is running.
InitFlagIdle ==
  /\ text = << >> /\ flag_pattern = NoPattern
  /\ error = "" /\ parse_result = "idle"

InitMainIdle ==
  /\ main_pc = "idle" /\ input_path = "" /\ output_dir = ""
  /\ output_dir_exists = FALSE /\ encode_file_calls = 0
  /\ encode_file_result = "none" /\ exit_status = 0

InitArgs ==
  /\ sample_rate_hz \in SampleRates
  /\ gen = UniformDraws(num_samples_per_packet)
  /\ randomize_num_samples_requested \in BOOLEAN
  /\ fixed_packet_loss_pattern \in Patterns
  /\ \E g \in GilbertParams :
        /\ packet_loss_rate = g[1] /\ average_burst_length = g[2]
        /\ (fixed_packet_loss_pattern # NoPattern => g = <<50, 2>>)

\* DecodeFile(encoded_path, output_path, sample_rate_hz, quality_preset, ...)
InitDecodeFile ==
  /\ entry = "DecodeFile"
  /\ InitArgs
  /\ quality_preset \in QualityPresets
  /\ encoded_file_size \in FileSizes(PacketSizeFor(quality_preset, sample_rate_hz))
  /\ pc = "create_decoder"
  /\ packet_loss_model = "null"
  /\ packet_stream_size = 0 /\ packet_size = 0
  /\ InitLocals
  /\ InitFlagIdle /\ InitMainIdle

\* DecodeFeatures(packet_stream, packet_size, ...) called on its own with a
\* stream of whole packets; packet_loss_model may be nullptr.
InitDecodeFeatures ==
  /\ entry = "DecodeFeatures"
  /\ InitArgs
  /\ quality_preset \in 1..8
  /\ packet_size = PacketSizeFor(quality_preset, sample_rate_hz)
  /\ \E k \in 0..MaxPackets : packet_stream_size = k * packet_size
  /\ encoded_file_size = packet_stream_size
  /\ \/ /\ packet_loss_model = "null"
        /\ fixed_packet_loss_pattern = NoPattern
        /\ packet_loss_rate = 0
     \/ /\ packet_loss_model = "fixed"
        /\ fixed_packet_loss_pattern # NoPattern
     \/ /\ packet_loss_model = "gilbert"
        /\ fixed_packet_loss_pattern = NoPattern
        /\ GilbertCreateOk(packet_loss_rate, average_burst_length)
  /\ pc = "loop_test"
  /\ InitLocals
  /\ InitFlagIdle /\ InitMainIdle

Init == InitDecodeFile \/ InitDecodeFeatures

Return(value) == pc' = "done" /\ result' = value


\* ------------------------------------------------------------- DecodeFile
\* LyraDecoder::Create may return nullptr.
CreateDecoder ==
  /\ pc = "create_decoder"
  /\ \E created \in BOOLEAN :
        IF created THEN pc' = "create_loss_model" /\ result' = result
                   ELSE Return("false")
  /\ UNCHANGED <<cli_vars, args, file_vars, model_vars, loop_vars, hist_vars>>

ChooseLossModel_GilbertFirst(pattern, loss_pct, burst) ==
  IF GilbertCreateOk(loss_pct, burst) THEN "gilbert"
  ELSE IF pattern.starts_ = << >> THEN "null" ELSE "fixed"
\* The loss model DecodeFile builds: "null" when Create returned nullptr.
ChooseLossModel(pattern, loss_pct, burst) ==
  IF pattern.starts_ = << >>
    THEN (IF GilbertCreateOk(loss_pct, burst) THEN "gilbert" ELSE "null")
    ELSE "fixed"

CreateLossModel ==
  /\ pc = "create_loss_model"
  /\ packet_loss_model' = ChooseLossModel(fixed_packet_loss_pattern,
                                          packet_loss_rate, average_burst_length)
  /\ IF packet_loss_model' = "null"
       THEN Return("false")
       ELSE pc' = "open_file" /\ result' = result
  /\ UNCHANGED <<cli_vars, args, packet_stream_size, bitrate, packet_size,
                 stream_size_remainder, model_vars, loop_vars, hist_vars>>

\* Opens the encoded file and reads all of it into packet_stream_string.
OpenFile ==
  /\ pc = "open_file"
  /\ \E is_open \in BOOLEAN :
        IF is_open
          THEN /\ packet_stream_size' = encoded_file_size
               /\ file_opened' = TRUE
               /\ pc' = "select_bitrate" /\ result' = result
          ELSE /\ Return("false")
               /\ UNCHANGED <<packet_stream_size, file_opened>>
  /\ UNCHANGED <<cli_vars, args, packet_loss_model, bitrate, packet_size,
                 stream_size_remainder, model_vars, loop_vars, received_log,
                 submitted, hop_audio_start, hop_short_return, hop_pulls,
                 decoder_error, preset_error_logged, trim_warning_logged, wav_writer_called>>

\* The bitrate chain; its else branch logs "Unsupported quality preset".
SelectBitrate ==
  /\ pc = "select_bitrate"
  /\ bitrate' = BitrateForPreset(quality_preset,
                                 sample_rate_hz \div kBaseSampleRateHz)
  /\ preset_error_logged' = (quality_preset \notin 1..8)
  /\ pc' = "packet_size"
  /\ UNCHANGED <<cli_vars, args, result, packet_loss_model, packet_stream_size, packet_size,
                 stream_size_remainder, model_vars, loop_vars, received_log,
                 submitted, hop_audio_start, hop_short_return, hop_pulls,
                 decoder_error, trim_warning_logged, wav_writer_called, file_opened>>

ComputePacketSize ==
  /\ pc = "packet_size"
  /\ packet_size' = BitrateToPacketSize(bitrate, FrameRate(sample_rate_hz))
  /\ pc' = "remainder"
  /\ UNCHANGED <<cli_vars, args, result, packet_loss_model, packet_stream_size, bitrate,
                 stream_size_remainder, model_vars, loop_vars, hist_vars>>

\* a % b of two ints.  With b = 0 the behaviour is undefined: the division
\* traps (x86), or yields quotient 0 and so the remainder a (AArch64).
Trap == -1
RemainderOutcomes(a, b) == IF b # 0 THEN {a % b} ELSE {Trap, a}

ComputeRemainder ==
  /\ pc = "remainder"
  /\ \E r \in RemainderOutcomes(packet_stream_size, packet_size) :
        IF r = Trap
          THEN /\ pc' = "crashed"
               /\ UNCHANGED stream_size_remainder
          ELSE /\ pc' = "trim"
               /\ stream_size_remainder' = r
  /\ UNCHANGED <<cli_vars, args, result, packet_loss_model, packet_stream_size, bitrate,
                 packet_size, model_vars, loop_vars, hist_vars>>

TrimmedSize_KeepsAll(size, remainder) == size
\* substr(0, size - remainder): the length that is kept
TrimmedSize(size, remainder) == size - remainder

TrimStream ==
  /\ pc = "trim"
  /\ IF stream_size_remainder # 0
       THEN /\ trim_warning_logged' = TRUE
            /\ packet_stream_size' =
                 TrimmedSize(packet_stream_size, stream_size_remainder)
       ELSE UNCHANGED <<trim_warning_logged, packet_stream_size>>
  /\ pc' = "check_empty"
  /\ UNCHANGED <<cli_vars, args, result, packet_loss_model, bitrate, packet_size,
                 stream_size_remainder, model_vars, loop_vars, received_log,
                 submitted, hop_audio_start, hop_short_return, hop_pulls,
                 decoder_error, preset_error_logged, wav_writer_called, file_opened>>

\* packet_stream_string.empty()
StreamIsEmpty(size) == size = 0

\* The empty check, then the call of DecodeFeatures with an empty
\* decoded_audio.
CheckEmpty ==
  /\ pc = "check_empty"
  /\ IF StreamIsEmpty(packet_stream_size)
       THEN Return("false")
       ELSE pc' = "loop_test" /\ result' = result
  /\ UNCHANGED <<cli_vars, args, file_vars, model_vars, loop_vars, hist_vars>>


\* --------------------------------------------------------- DecodeFeatures
\* The for loop's test; falling out of the loop returns true.
LoopTest ==
  /\ pc = "loop_test"
  /\ IF encoded_index < packet_stream_size
       THEN pc' = "query" /\ UNCHANGED features_ok
       ELSE pc' = "features_return" /\ features_ok' = TRUE
  /\ UNCHANGED <<cli_vars, args, result, file_vars, model_vars, encoded_index, received,
                 samples_decoded_so_far, samples_to_request, decoded_audio,
                 hist_vars>>

\* IsPacketReceived() of the model at hand: the pairs <<answer, next state
\* of the chain>> it may give at its call number calls (counted from 0).
IsPacketReceivedOutcomes(model, calls) ==
  IF model = "fixed"
    THEN {<<FixedIsPacketReceived(calls, sample_rate_hz, num_samples_per_packet,
                                  fixed_packet_loss_pattern), gilbert_state>>}
    ELSE {<<st = "good", st>> :
            st \in GilbertNextStates(gilbert_state, packet_loss_rate,
                                     average_burst_length)}

PacketIsReceived_Inverted(model, answer) == model = "null" \/ ~answer
PacketIsReceived_Always(model, answer) == TRUE
\* packet_loss_model == nullptr || packet_loss_model->IsPacketReceived()
PacketIsReceived(model, answer) == model = "null" \/ answer

\* The start of the pull loop of a hop: samples_decoded_so_far = 0.
StartHop ==
  /\ samples_decoded_so_far' = 0
  /\ hop_audio_start' = decoded_audio
  /\ hop_short_return' = FALSE
  /\ hop_pulls' = 0

AnswerText(answer) == IF answer THEN "received" ELSE "lost"

QueryLossModel ==
  /\ pc = "query"
  /\ IF packet_loss_model = "null"
       THEN /\ received' = PacketIsReceived(packet_loss_model, FALSE)
            /\ received_log' = Append(received_log, "not_asked")
            /\ UNCHANGED model_vars
       ELSE \E o \in IsPacketReceivedOutcomes(packet_loss_model, num_calls) :
              /\ received' = PacketIsReceived(packet_loss_model, o[1])
              /\ received_log' = Append(received_log, AnswerText(o[1]))
              /\ gilbert_state' = o[2]
              /\ num_calls' = num_calls + 1
  /\ IF received'
       THEN /\ pc' = "submit"
            /\ UNCHANGED <<samples_decoded_so_far, hop_audio_start,
                           hop_short_return, hop_pulls>>
       ELSE /\ pc' = "pull"
            /\ StartHop
  /\ UNCHANGED <<cli_vars, args, result, file_vars, encoded_index, samples_to_request,
                 decoded_audio, features_ok, submitted, decoder_error,
                 preset_error_logged, trim_warning_logged, wav_writer_called,
                 file_opened>>

\* MakeConstSpan(packet_stream.data() + encoded_index, packet_size)
EncodedPacket(index, size) ==
  [frame |-> frame_index, offset |-> index, size |-> size]

\* decoder->SetEncodedPacket(encoded_packet), which may reject the packet.
SubmitPacket ==
  /\ pc = "submit"
  /\ submitted' = Append(submitted, EncodedPacket(encoded_index, packet_size))
  /\ \E accepted \in BOOLEAN :
        IF accepted
          THEN /\ pc' = "pull"
               /\ StartHop
               /\ UNCHANGED <<features_ok, decoder_error>>
          ELSE /\ pc' = "features_return"
               /\ features_ok' = FALSE
               /\ decoder_error' = "packet_rejected"
               /\ UNCHANGED <<samples_decoded_so_far, hop_audio_start,
                              hop_short_return, hop_pulls>>
  /\ UNCHANGED <<cli_vars, args, result, file_vars, model_vars, encoded_index, received,
                 samples_to_request, decoded_audio, received_log,
                 preset_error_logged, trim_warning_logged, wav_writer_called,
                 file_opened>>

\* samples_to_request of one pull, draw being the value of absl::Uniform
\* (which is evaluated in randomized mode only).
SamplesToRequest(randomize, draw, per_packet, so_far) ==
  IF randomize THEN Min(draw, per_packet - so_far) ELSE per_packet

RequestChoices ==
  IF randomize_num_samples_requested
    THEN {SamplesToRequest(TRUE, d, num_samples_per_packet,
                           samples_decoded_so_far) :
            d \in gen}
    ELSE {SamplesToRequest(FALSE, 0, num_samples_per_packet,
                           samples_decoded_so_far)}

HopIncomplete_Inclusive(so_far, per_packet) == so_far <= per_packet
\* while (samples_decoded_so_far < num_samples_per_packet)
HopIncomplete(so_far, per_packet) == so_far < per_packet

\* One pass of the while loop: request, DecodeSamples, append.
PullSamples ==
  /\ pc = "pull"
  /\ HopIncomplete(samples_decoded_so_far, num_samples_per_packet)
  /\ \E n \in RequestChoices :
       /\ samples_to_request' = n
       /\ \E decoded \in DecodeSamplesOutcomes(n) :
            IF decoded = NullOpt
              THEN /\ pc' = "features_return"
                   /\ features_ok' = FALSE
                   /\ decoder_error' = "no_samples"
                   /\ UNCHANGED <<samples_decoded_so_far, decoded_audio,
                                  hop_short_return, hop_pulls>>
              ELSE /\ samples_decoded_so_far' = samples_decoded_so_far + decoded
                   /\ decoded_audio' = decoded_audio + decoded
                   /\ hop_short_return' = (hop_short_return \/ decoded < n)
                   /\ hop_pulls' = IF hop_short_return' THEN 0
                                                        ELSE hop_pulls + 1
                   /\ pc' = "pull"
                   /\ UNCHANGED <<features_ok, decoder_error>>
  /\ UNCHANGED <<cli_vars, args, result, file_vars, model_vars, encoded_index, received,
                 received_log, submitted, hop_audio_start, preset_error_logged,
                 trim_warning_logged, wav_writer_called, file_opened>>

NextEncodedIndex_DoubleStride(index, size) == index + 2 * size
\* encoded_index += packet_size
NextEncodedIndex(index, size) == index + size

\* The while loop ends and the for loop steps to the next packet.
AdvancePacket ==
  /\ pc = "pull"
  /\ ~HopIncomplete(samples_decoded_so_far, num_samples_per_packet)
  /\ encoded_index' = NextEncodedIndex(encoded_index, packet_size)
  /\ pc' = "loop_test"
  /\ UNCHANGED <<cli_vars, args, result, file_vars, model_vars, received,
                 samples_decoded_so_far, samples_to_request, decoded_audio,
                 features_ok, hist_vars>>

BoolText(b) == IF b THEN "true" ELSE "false"

DecodeFileContinues_IgnoresResult(ok) == TRUE
\* if (!DecodeFeatures(...)) return false;
DecodeFileContinues(ok) == ok

\* DecodeFeatures returns: to its caller, or into DecodeFile, which goes on
\* to the WAV writer only when DecodeFeatures returned true.
ReturnFromDecodeFeatures ==
  /\ pc = "features_return"
  /\ IF entry = "DecodeFeatures"
       THEN Return(BoolText(features_ok))
       ELSE IF DecodeFileContinues(features_ok)
              THEN pc' = "write_wav" /\ result' = result
              ELSE Return("false")
  /\ UNCHANGED <<cli_vars, args, file_vars, model_vars, loop_vars, hist_vars>>

\* Write16BitWavFileFromVector, whose status may be an error.
WriteWav ==
  /\ pc = "write_wav"
  /\ wav_writer_called' = TRUE
  /\ \E ok \in BOOLEAN : Return(BoolText(ok))
  /\ UNCHANGED <<cli_vars, args, file_vars, model_vars, loop_vars, received_log,
                 submitted, hop_audio_start, hop_short_return, hop_pulls,
                 decoder_error, preset_error_logged, trim_warning_logged,
                 file_opened>>

Next ==
  \/ CreateDecoder
  \/ CreateLossModel
  \/ OpenFile
  \/ SelectBitrate
  \/ ComputePacketSize
  \/ ComputeRemainder
  \/ TrimStream
  \/ CheckEmpty
  \/ LoopTest
  \/ QueryLossModel
  \/ SubmitPacket
  \/ PullSamples
  \/ AdvancePacket
  \/ ReturnFromDecodeFeatures
  \/ WriteWav

Spec == Init /\ [][Next]_vars

\* The decode of a one second stream at 16 kHz under the fixed loss pattern
\* starts_ = [0.0], durations_ = [0.5].
HalfSecondPattern == [starts_ |-> <<0>>, durations_ |-> <<500>>]

InitOneSecond ==
  /\ entry = "DecodeFile"
  /\ sample_rate_hz = 16000
  /\ gen = UniformDraws(num_samples_per_packet)
  /\ randomize_num_samples_requested \in BOOLEAN
  /\ fixed_packet_loss_pattern = HalfSecondPattern
  /\ packet_loss_rate = 0 /\ average_burst_length = 1
  /\ quality_preset = 1
  /\ encoded_file_size =
       FrameRate(sample_rate_hz) * PacketSizeFor(quality_preset, sample_rate_hz)
  /\ pc = "create_decoder"
  /\ packet_loss_model = "null"
  /\ packet_stream_size = 0 /\ packet_size = 0
  /\ InitLocals
  /\ InitFlagIdle /\ InitMainIdle

SpecOneSecond == InitOneSecond /\ [][Next]_vars

\* The bitrate arithmetic of DecodeFile over every valid preset and every
\* sample rate that is a multiple of 8000 Hz, on a file of one packet that
\* is not lost.
RateMultiples == 1..MaxRateMultiple

InitBitrate ==
  /\ entry = "DecodeFile"
  /\ \E m \in RateMultiples : sample_rate_hz = kBaseSampleRateHz * m
  /\ gen = UniformDraws(num_samples_per_packet)
  /\ randomize_num_samples_requested = FALSE
  /\ fixed_packet_loss_pattern = NoPattern
  /\ packet_loss_rate = 0 /\ average_burst_length = 1
  /\ quality_preset \in 1..8
  /\ encoded_file_size = PacketSizeFor(quality_preset, sample_rate_hz)
  /\ pc = "create_decoder"
  /\ packet_loss_model = "null"
  /\ packet_stream_size = 0 /\ packet_size = 0
  /\ InitLocals
  /\ InitFlagIdle /\ InitMainIdle

SpecBitrate == InitBitrate /\ [][Next]_vars

\* The decode of up to MaxPackets packets at 16 kHz in both pull modes, with
\* a generator that yields the two ends of its range: 1 and the hop size.
FineDraws(n) == {1, n}

InitPulls ==
  /\ entry = "DecodeFile"
  /\ sample_rate_hz = 16000
  /\ gen = FineDraws(num_samples_per_packet)
  /\ randomize_num_samples_requested \in BOOLEAN
  /\ fixed_packet_loss_pattern = NoPattern
  /\ \E g \in {<<0, 1>>, <<50, 2>>} :
        packet_loss_rate = g[1] /\ average_burst_length = g[2]
  /\ quality_preset = 1
  /\ \E k \in 1..MaxPackets :
        encoded_file_size = k * PacketSizeFor(quality_preset, sample_rate_hz)
  /\ pc = "create_decoder"
  /\ packet_loss_model = "null"
  /\ packet_stream_size = 0 /\ packet_size = 0
  /\ InitLocals
  /\ InitFlagIdle /\ InitMainIdle

\* The program keeps running: a step that can be taken is taken.
SpecPulls == InitPulls /\ [][Next]_vars /\ WF_vars(Next)

PcValues ==
  {"create_decoder", "create_loss_model", "open_file", "select_bitrate",
   "packet_size", "remainder", "trim", "check_empty", "loop_test", "query",
   "submit", "pull", "features_return", "write_wav", "done", "crashed",
   "idle"}

TypeOK ==
  /\ pc \in PcValues
  /\ result \in {"none", "true", "false"}
  /\ packet_loss_model \in {"null", "gilbert", "fixed"}
  /\ decoded_audio \in Nat
  /\ samples_to_request \in Nat
  /\ decoder_error \in {"none", "packet_rejected", "no_samples"}


\* ------------------------------------------------------------------ claims
SubmittedFrames == {submitted[j].frame : j \in 1..Len(submitted)}
\* The samples appended to decoded_audio since the current hop began.
HopSamples == decoded_audio - hop_audio_start

\* C1: in both pull modes and for received and lost packets alike, the
\* samples appended to decoded_audio during one hop never exceed
\* samples_per_hop, and are exactly samples_per_hop when the loop goes on
\* to the next packet.
C1_HopSamplesExact ==
  /\ (pc = "pull" => HopSamples <= num_samples_per_packet)
  /\ (pc = "loop_test" /\ encoded_index > 0
        => HopSamples = num_samples_per_packet)

\* C2: every pull requests n with 1 <= n <= samples_per_hop minus the samples
\* already produced for the hop, in both pull modes, also after a pull that
\* returned fewer samples than were requested.
C2_RequestWithinHop ==
  [][(pc = "pull" /\ pc' \in {"pull", "features_return"})
       => /\ 1 <= samples_to_request'
          /\ samples_to_request'
               <= num_samples_per_packet - samples_decoded_so_far]_vars

\* C3: with a quality_preset outside 1..8 DecodeFile returns failure at the
\* preset check: it goes on to no packet size, remainder, decode or output
\* step, and it does not end otherwise than by returning false.
C3_InvalidPresetReturnsFailure ==
  (entry = "DecodeFile" /\ quality_preset \notin 1..8)
    => /\ pc \notin {"packet_size", "remainder", "trim", "check_empty",
                     "loop_test", "query", "submit", "pull",
                     "features_return", "write_wav", "crashed"}
       /\ (pc = "done" => result = "false")
       /\ submitted = << >> /\ decoded_audio = 0 /\ ~wav_writer_called

\* C4: a packet is handed to SetEncodedPacket if and only if no loss model
\* is configured or IsPacketReceived() answered true for it; the answer
\* "not_asked" is logged exactly when there is no loss model.
C4_SubmittedIffReceived ==
  \A i \in 1..Len(received_log) :
    /\ (received_log[i] = "not_asked") <=> (packet_loss_model = "null")
    /\ (i < Len(received_log) \/ pc # "submit")
         => ((i - 1 \in SubmittedFrames) <=> (received_log[i] # "lost"))

C4_Witness ==
  /\ pc = "features_return" /\ features_ok
  /\ packet_loss_model = "gilbert"
  /\ received_log = <<"lost", "received">>
  /\ SubmittedFrames = {1}

\* C5: the loss model is asked once per packet, in packet order: when it is
\* about to be asked for a packet its call count is the packet's
\* frame_index, during the submission and the pulls of that packet the
\* count is frame_index + 1, and every submitted packet was asked about
\* before.
C5_QueryOncePerPacketInOrder ==
  packet_loss_model # "null" =>
    /\ (pc = "query" => num_calls = frame_index)
    /\ (pc \in {"submit", "pull"} => num_calls = frame_index + 1)
    /\ (pc = "loop_test" => num_calls = frame_index)
    /\ (pc = "features_return" /\ features_ok
          => num_calls * packet_size = packet_stream_size)
    /\ Len(received_log) = num_calls
    /\ \A f \in SubmittedFrames : f < num_calls

C5_Witness ==
  /\ pc = "query" /\ packet_loss_model # "null"
  /\ frame_index = 1 /\ num_calls = 1
  /\ decoded_audio >= num_samples_per_packet


\* The file holds at least one whole packet and a partial one after it.
HasPartialTail ==
  /\ entry = "DecodeFile" /\ packet_size > 0
  /\ encoded_file_size >= packet_size
  /\ encoded_file_size % packet_size # 0
WholePacketBytes == (encoded_file_size \div packet_size) * packet_size

\* C6: a file of k whole packets and r trailing bytes (k >= 1, 0 < r <
\* packet_size) is decoded as its first k * packet_size bytes: after the
\* trim (which warns) the stream is exactly those bytes, the loop runs over
\* them alone, no submitted range reaches into the tail, k packets are
\* handled when the decoder raises no error, and the call fails only on a
\* decoder or writer error.
C6_TrailingBytesIgnored ==
  (HasPartialTail /\ pc \notin {"remainder", "trim"}) =>
    /\ packet_stream_size = WholePacketBytes
    /\ trim_warning_logged
    /\ pc # "crashed"
    /\ encoded_index <= WholePacketBytes
    /\ \A j \in 1..Len(submitted) :
         submitted[j].offset + submitted[j].size <= WholePacketBytes
    /\ (pc \in {"features_return", "write_wav", "done"}
          /\ decoder_error = "none"
          => Len(received_log) * packet_size = WholePacketBytes)
    /\ (pc = "done" /\ result = "false"
          => decoder_error # "none" \/ wav_writer_called)

C6_Witness ==
  /\ HasPartialTail /\ pc = "done" /\ result = "true"
  /\ encoded_file_size = 2 * packet_size + 1
  /\ Len(submitted) = 2

EmptyOrShortStream ==
  /\ entry = "DecodeFile" /\ file_opened
  /\ encoded_file_size < Max(1, PacketSizeFor(quality_preset, sample_rate_hz))

\* C7: when the encoded stream is empty or shorter than one packet,
\* DecodeFile returns failure, having called neither SetEncodedPacket nor
\* DecodeSamples nor the WAV writer.
C7_EmptyStreamReturnsFailure ==
  EmptyOrShortStream =>
    /\ pc \notin {"loop_test", "query", "submit", "pull", "features_return",
                  "write_wav", "crashed"}
    /\ (pc = "done" => result = "false")
    /\ submitted = << >> /\ samples_to_request = 0 /\ decoded_audio = 0
    /\ ~wav_writer_called

\* C8: once SetEncodedPacket rejected a packet or DecodeSamples returned no
\* value, DecodeFeatures returns false, the WAV writer is not called,
\* DecodeFile returns failure, and no further loss model query, submission
\* or pull takes place.
C8_DecoderFailureAborts ==
  /\ [](decoder_error # "none" =>
          /\ ~features_ok
          /\ pc \in {"features_return", "done"}
          /\ ~wav_writer_called
          /\ (pc = "done" => result = "false"))
  /\ [][decoder_error # "none" =>
          UNCHANGED <<num_calls, received_log, submitted, decoded_audio,
                      samples_to_request, encoded_index>>]_vars

C8_Witness ==
  /\ entry = "DecodeFile" /\ pc = "done" /\ result = "false"
  /\ decoder_error = "no_samples"
  /\ Len(received_log) = 1 /\ packet_stream_size = 2 * packet_size
  /\ ~wav_writer_called

\* C9: after DecodeFeatures returned true for a stream of k whole packets,
\* decoded_audio holds exactly k * samples_per_hop samples, whatever the
\* loss model answered.
C9_SuccessfulDecodeLength ==
  (pc = "features_return" /\ features_ok)
    => decoded_audio
         = (packet_stream_size \div packet_size) * num_samples_per_packet

\* The hop of frame f begins at or after the end of the pattern's interval.
StartsAfterLoss(f) ==
  f * num_samples_per_packet * 1000
    >= (HalfSecondPattern.starts_[1] + HalfSecondPattern.durations_[1])
         * sample_rate_hz

\* C10: under the fixed pattern starts_ = [0.0], durations_ = [0.5] the
\* packet of frame i is answered lost exactly when its window meets the
\* interval; of a one second 16 kHz stream no packet of the first half
\* second is submitted and every later packet that is handled is.  Both
\* logs only grow, so each answer and each submission is stated as the
\* latest entry of the state that follows it, and the whole logs are
\* stated when DecodeFeatures returns true.
C10_FixedPatternHalfSecond ==
  LET n == Len(received_log)
      m == Len(submitted)
      pat == fixed_packet_loss_pattern
      Meets(f) == \E j \in 1..Len(pat.starts_) :
                    WindowIntersects(f, sample_rate_hz, num_samples_per_packet,
                                     pat.starts_[j], pat.durations_[j])
  IN /\ (n > 0 => /\ (received_log[n] = "lost") <=> Meets(n - 1)
                  /\ (received_log[n] = "lost") <=> ~StartsAfterLoss(n - 1))
     /\ (m > 0 => StartsAfterLoss(submitted[m].frame))
     /\ (pc = "pull" /\ StartsAfterLoss(frame_index)
           => m > 0 /\ submitted[m].frame = frame_index)
     /\ (pc = "features_return" /\ features_ok
           => /\ n = FrameRate(sample_rate_hz)
              /\ \A i \in 1..n : (received_log[i] = "lost") <=> Meets(i - 1)
              /\ SubmittedFrames = {f \in 0..(n - 1) : StartsAfterLoss(f)})

C10_Witness ==
  /\ pc = "features_return" /\ features_ok
  /\ Len(received_log) = 50
  /\ SubmittedFrames = 25..49
  /\ \A i \in 1..25 : received_log[i] = "lost"

\* ----------------------------------------------------------- AbslParseFlag
\* A text is the sequence of its comma-separated fields (a string has at
\* least one field; the empty string is the one empty field).  A float is
\* NaN or a number, which is kept in milliseconds.
Fields == {"0", "0.5", "-1", "-0", "nan", "abc", ""}
Number(ms) == [nan |-> FALSE, ms |-> ms]
NaN == [nan |-> TRUE, ms |-> 0]

\* absl::ParseFlag(text, &entries, error) of a std::vector<std::string>:
\* the empty text gives no entry, any other text its fields.
SplitEntries(fields) == IF fields = <<"">> THEN << >> ELSE fields

\* std::stof(s): it throws std::invalid_argument when s starts with no
\* number; "nan" is a number for it, "-0" is the negative zero.
StofThrows(s) == s \in {"abc", ""}
Stof(s) ==
  CASE s = "0" -> Number(0)
    [] s = "0.5" -> Number(500)
    [] s = "-1" -> Number(-1000)
    [] s = "-0" -> Number(0)
    [] s = "nan" -> NaN
    [] OTHER -> NaN

\* a < b of two floats: false when either is NaN.
FloatLess(a, b) == ~a.nan /\ ~b.nan /\ a.ms < b.ms

\* entries.size() % 2 == 1
OddCount(n) == n % 2 = 1

\* if (value < 0)
ValueRejected(value) == FloatLess(value, Number(0))

PushBack(pat, is_start, value) ==
  IF is_start THEN [pat EXCEPT !.starts_ = Append(@, value)]
              ELSE [pat EXCEPT !.durations_ = Append(@, value)]

\* The for loop over entries: what *pattern and *error hold when the
\* function is left, and how it is left (an exception of std::stof leaves
\* through the caller).
RECURSIVE ParseLoop(_, _, _)
ParseLoop(entries, pat, is_start) ==
  IF entries = << >>
    THEN [pattern |-> pat, error |-> "", returned |-> "true"]
    ELSE IF StofThrows(Head(entries))
      THEN [pattern |-> pat, error |-> "", returned |-> "threw"]
      ELSE IF ValueRejected(Stof(Head(entries)))
        THEN [pattern |-> pat,
              error |-> "Can not supply values less than zero",
              returned |-> "false"]
        ELSE ParseLoop(Tail(entries),
                       PushBack(pat, is_start, Stof(Head(entries))),
                       ~is_start)

AbslParseFlag(fields, pat) ==
  IF OddCount(Len(SplitEntries(fields)))
    THEN [pattern |-> pat,
          error |-> "Must supply an even number of comma separated values",
          returned |-> "false"]
    ELSE ParseLoop(SplitEntries(fields), pat, TRUE)

\* The sequences over S of lengths 1..n.
RECURSIVE SeqsUpTo(_, _)
SeqsUpTo(S, n) ==
  IF n = 0 THEN {}
  ELSE SeqsUpTo(S, n - 1) \cup [1..n -> S]

Texts == SeqsUpTo(Fields, MaxFields)

\* Nothing of the decoder is running.
InitDecodeIdle ==
  /\ entry = "none" /\ pc = "idle"
  /\ sample_rate_hz = 16000 /\ gen = {}
  /\ randomize_num_samples_requested = FALSE
  /\ fixed_packet_loss_pattern = NoPattern
  /\ packet_loss_rate = 0 /\ average_burst_length = 1
  /\ encoded_file_size = 0
  /\ packet_loss_model = "null"
  /\ packet_stream_size = 0 /\ packet_size = 0
  /\ InitLocals

\* AbslParseFlag is called with a text and an empty pattern.
InitParse ==
  /\ text \in Texts
  /\ flag_pattern = NoPattern
  /\ error = "" /\ parse_result = "called"
  /\ InitDecodeIdle /\ quality_preset = 1
  /\ InitMainIdle

ParseFlag ==
  /\ parse_result = "called"
  /\ LET r == AbslParseFlag(text, flag_pattern)
     IN /\ flag_pattern' = r.pattern
        /\ error' = r.error
        /\ parse_result' = r.returned
  /\ UNCHANGED <<text, main_vars, decode_vars>>

NextParse == ParseFlag

SpecParse == InitParse /\ [][NextParse]_vars

\* ------------------------------------------------------ main of the encoder
\* Values of --input_path and --output_dir; "" is the unset flag.
InputPaths == {"", "a.wav", "in/b.wav"}
OutputDirs == {"", "out", "out/sub"}

\* main starts with the flags parsed; output_dir_exists tells whether the
\* output directory is there.
InitMain ==
  /\ main_pc = "check_paths"
  /\ input_path \in InputPaths
  /\ output_dir \in OutputDirs
  /\ output_dir_exists \in BOOLEAN
  /\ (output_dir = "" => ~output_dir_exists)
  /\ quality_preset \in QualityPresets
  /\ encode_file_calls = 0 /\ encode_file_result = "none"
  /\ exit_status = 0
  /\ InitDecodeIdle /\ InitFlagIdle

\* return of main
Exit(status) == main_pc' = "exited" /\ exit_status' = status

\* input_path.empty(), output_dir.empty()
PathUnset(path) == path = ""

CheckPaths ==
  /\ main_pc = "check_paths"
  /\ IF PathUnset(input_path) \/ PathUnset(output_dir)
       THEN Exit(-1)
       ELSE main_pc' = "check_dir" /\ exit_status' = exit_status
  /\ UNCHANGED <<input_path, output_dir, output_dir_exists,
                 encode_file_calls, encode_file_result, flag_vars,
                 decode_vars>>

\* is_directory, and create_directories when it is no directory;
\* create_directories may fail.
CheckOutputDir ==
  /\ main_pc = "check_dir"
  /\ IF output_dir_exists
       THEN /\ main_pc' = "encode"
            /\ UNCHANGED <<output_dir_exists, exit_status>>
       ELSE \E created \in BOOLEAN :
              IF created
                THEN /\ output_dir_exists' = TRUE
                     /\ main_pc' = "encode"
                     /\ exit_status' = exit_status
                ELSE /\ Exit(-1)
                     /\ UNCHANGED output_dir_exists
  /\ UNCHANGED <<input_path, output_dir, encode_file_calls,
                 encode_file_result, flag_vars, decode_vars>>

MainStatusAfterEncode_AlwaysZero(ok) == 0
\* if (!EncodeFile(...)) return -1; return 0;
MainStatusAfterEncode(ok) == IF ok THEN 0 ELSE -1

\* The call of EncodeFile, which returns true or false.
CallEncodeFile ==
  /\ main_pc = "encode"
  /\ encode_file_calls' = encode_file_calls + 1
  /\ \E ok \in BOOLEAN :
        /\ encode_file_result' = BoolText(ok)
        /\ Exit(MainStatusAfterEncode(ok))
  /\ UNCHANGED <<input_path, output_dir, output_dir_exists, flag_vars,
                 decode_vars>>

NextMain == CheckPaths \/ CheckOutputDir \/ CallEncodeFile

SpecMain == InitMain /\ [][NextMain]_vars

\* The bitrate (bits per second) and the packet size (bytes) are computed:
\* DecodeFile is past the if/else chain, or past BitrateToPacketSize.
BitrateKnown ==
  entry = "DecodeFile" /\ file_opened /\ pc # "select_bitrate"
PacketSizeKnown == BitrateKnown /\ pc # "packet_size"

\* C11: for every preset 1..8 and every supported sample rate the packet
\* size in bytes is a positive integer, and at a fixed sample rate it does
\* not decrease when the preset grows: no lower preset has a larger packet
\* and no higher preset a smaller one.
C11_PacketSizePositiveMonotone ==
  (PacketSizeKnown /\ quality_preset \in 1..8) =>
     /\ packet_size \in Nat /\ packet_size >= 1
     /\ \A p \in 1..8 :
          /\ (p <= quality_preset =>
                 PacketSizeFor(p, sample_rate_hz) <= packet_size)
          /\ (p >= quality_preset =>
                 packet_size <= PacketSizeFor(p, sample_rate_hz))

C11_Witness ==
  /\ PacketSizeKnown /\ quality_preset = 5 /\ sample_rate_hz = 48000
  /\ packet_size = 38
  /\ PacketSizeFor(4, sample_rate_hz) = 30
  /\ PacketSizeFor(6, sample_rate_hz) = 45

\* C12: for every preset 1..8 and every supported sample rate the bits of
\* one hop, bitrate / (sample_rate_hz / 320), are a whole number that is a
\* multiple of 8, so the packet size in bytes stands for exactly the
\* bitrate: nothing is truncated in either division.
C12_BitBudgetByteDivisible ==
  (BitrateKnown /\ quality_preset \in 1..8) =>
     /\ sample_rate_hz % kHopRateDivisor = 0
     /\ bitrate % FrameRate(sample_rate_hz) = 0
     /\ (bitrate \div FrameRate(sample_rate_hz)) % 8 = 0
     /\ (PacketSizeKnown =>
           packet_size * 8 * FrameRate(sample_rate_hz) = bitrate)

C12_Witness ==
  /\ PacketSizeKnown /\ quality_preset = 3 /\ sample_rate_hz = 16000
  /\ bitrate = 9200 /\ packet_size = 23

\* C20: for every preset 1..8 and every sample rate that is a multiple of
\* 8000 Hz the packet size in bits, 8 * packet_size, is at most
\* kMaxNumPacketBits = 480; preset 8 is the one that comes to the capacity.
C20_PacketBitsWithinCapacity ==
  (PacketSizeKnown /\ quality_preset \in 1..8) =>
     /\ 8 * packet_size <= kMaxNumPacketBits
     /\ (8 * packet_size = kMaxNumPacketBits => quality_preset = 8)

C20_Witness ==
  /\ PacketSizeKnown /\ quality_preset = 8 /\ sample_rate_hz = 32000
  /\ 8 * packet_size = kMaxNumPacketBits

\* What the text says, read without the parser: its comma-separated values,
\* the fields that are written as a negative number, and the ones written
\* as a number that is zero or more, with that number in milliseconds.
TextValues == IF text = <<"">> THEN << >> ELSE text
WrittenNegative(s) == s = "-1"
WrittenNonNegative(s) == s \in {"0", "0.5", "-0"}
WrittenMs(s) == IF s = "0.5" THEN 500 ELSE 0
ParseReturned == parse_result \in {"true", "false", "threw"}

\* C13: AbslParseFlag returns false, with an error message, whenever the
\* text holds an odd number of comma-separated values and whenever a value
\* is negative; it returns true only if the number of values is even and
\* every value is zero or more.
C13_ParseRejectsOddAndNegative ==
  ParseReturned =>
     /\ (Len(TextValues) % 2 = 1 =>
           parse_result = "false" /\ error # "")
     /\ ((\E i \in 1..Len(TextValues) : WrittenNegative(TextValues[i])) =>
           parse_result = "false" /\ error # "")
     /\ (parse_result = "true" =>
           /\ Len(TextValues) % 2 = 0
           /\ \A i \in 1..Len(TextValues) : WrittenNonNegative(TextValues[i]))

\* C16: after a call of AbslParseFlag on an empty pattern, with the text
\* accepted or rejected, starts_ and durations_ have the same length and
\* hold only values that are zero or more; after an accepted text of 2n
\* values starts_ holds the values at the even positions (counted from 0)
\* and durations_ the values at the odd positions, in the order of the
\* text, n of each.
C16_PatternWellFormedAfterParse ==
  ParseReturned =>
     /\ Len(flag_pattern.starts_) = Len(flag_pattern.durations_)
     /\ \A i \in 1..Len(flag_pattern.starts_) :
          ~flag_pattern.starts_[i].nan /\ flag_pattern.starts_[i].ms >= 0
     /\ \A i \in 1..Len(flag_pattern.durations_) :
          ~flag_pattern.durations_[i].nan /\ flag_pattern.durations_[i].ms >= 0
     /\ (parse_result = "true" =>
           /\ Len(TextValues) = 2 * Len(flag_pattern.starts_)
           /\ \A i \in 1..Len(flag_pattern.starts_) :
                /\ flag_pattern.starts_[i] =
                     Number(WrittenMs(TextValues[2 * i - 1]))
                /\ flag_pattern.durations_[i] =
                     Number(WrittenMs(TextValues[2 * i])))

\* C14: main of the encoder returns 0 if and only if EncodeFile was called
\* and succeeded; it returns non-zero without calling EncodeFile when
\* input_path is unset, when output_dir is unset, or when the output
\* directory does not exist and cannot be created; it returns non-zero when
\* EncodeFile fails.
C14_MainExitStatus ==
  /\ encode_file_calls <= 1
  /\ (main_pc = "exited" =>
        /\ (exit_status = 0 <=>
              (encode_file_calls = 1 /\ encode_file_result = "true"))
        /\ ((input_path = "" \/ output_dir = "" \/ ~output_dir_exists) =>
              (exit_status # 0 /\ encode_file_calls = 0))
        /\ (encode_file_result = "false" => exit_status # 0))

C14_Witness ==
  /\ main_pc = "exited" /\ exit_status # 0
  /\ encode_file_calls = 1 /\ encode_file_result = "false"
  /\ input_path = "a.wav" /\ output_dir = "out/sub"

\* DecodeFile is past the construction of its loss model.
LossModelBuilt ==
  entry = "DecodeFile" /\ (pc = "open_file" \/ file_opened)
GilbertOutOfRange ==
  /\ fixed_packet_loss_pattern.starts_ = << >>
  /\ ~GilbertCreateOk(packet_loss_rate, average_burst_length)

\* C15: DecodeFile builds a FixedPattern loss model exactly when the
\* packet loss pattern is not empty and a Gilbert model otherwise; when the
\* Gilbert model cannot be constructed because packet_loss_rate or
\* average_burst_length is out of range, DecodeFile returns failure before
\* the encoded file is opened and no packet is decoded.
C15_LossModelChoice ==
  entry = "DecodeFile" =>
     /\ (packet_loss_model = "fixed" =>
           fixed_packet_loss_pattern.starts_ # << >>)
     /\ (packet_loss_model = "gilbert" =>
           fixed_packet_loss_pattern.starts_ = << >>)
     /\ (LossModelBuilt => packet_loss_model \in {"fixed", "gilbert"})
     /\ (GilbertOutOfRange =>
           /\ pc \in {"create_decoder", "create_loss_model", "done"}
           /\ (pc = "done" => result = "false")
           /\ ~file_opened
           /\ received_log = << >> /\ submitted = << >>
           /\ decoded_audio = 0 /\ ~wav_writer_called)

C15_Witness ==
  /\ entry = "DecodeFile" /\ GilbertOutOfRange
  /\ packet_loss_rate = 100
  /\ pc = "done" /\ result = "false" /\ ~file_opened

\* The SetEncodedPacket calls that follow from the loss model's answers
\* alone: the packets of the frames not answered "lost", in frame order.
RECURSIVE ExpectedSubmissions(_, _)
ExpectedSubmissions(log, size) ==
  IF log = << >> THEN << >>
  ELSE LET before == ExpectedSubmissions(SubSeq(log, 1, Len(log) - 1), size)
           f == Len(log) - 1
       IN IF log[Len(log)] = "lost"
            THEN before
            ELSE Append(before,
                        [frame |-> f, offset |-> f * size, size |-> size])

\* The answers whose packets the loop is done with, or is pulling for.
HandledAnswers ==
  IF pc = "submit" THEN SubSeq(received_log, 1, Len(received_log) - 1)
                   ELSE received_log

\* C18: randomize_num_samples_requested changes only how the samples of a
\* hop are split into pulls.  The sequence of IsPacketReceived and
\* SetEncodedPacket calls and the total number of samples are fixed by the
\* stream, the packet size and the loss model's answers, so that a decode
\* with the flag on and one with it off agree on them whatever the random
\* generator yields: the submitted packets are those of the frames not
\* answered lost, in order, and a decode that returns true has asked once
\* per packet and holds samples_per_hop samples per packet.
C18_PullModeChangesSplitOnly ==
  /\ submitted = ExpectedSubmissions(HandledAnswers, packet_size)
  /\ ((pc = "features_return" /\ features_ok) =>
        /\ Len(received_log) * packet_size = packet_stream_size
        /\ decoded_audio = Len(received_log) * num_samples_per_packet)

\* C19: every byte range handed to SetEncodedPacket during DecodeFile is
\* [i * packet_size, (i + 1) * packet_size) for the frame index i of its
\* packet and lies within the trimmed stream; the ranges are pairwise
\* disjoint and strictly increasing in offset, and none goes past the end
\* of the stream.
C19_SubmittedRangesInStream ==
  entry = "DecodeFile" =>
    \A j \in 1..Len(submitted) :
       /\ submitted[j].frame >= 0
       /\ submitted[j].offset = submitted[j].frame * packet_size
       /\ submitted[j].size = packet_size /\ packet_size > 0
       /\ submitted[j].offset + submitted[j].size <= packet_stream_size
       /\ packet_stream_size <= encoded_file_size
       /\ \A k \in 1..Len(submitted) :
            j < k => submitted[j].offset + submitted[j].size
                       <= submitted[k].offset

C19_Witness ==
  /\ entry = "DecodeFile" /\ Len(submitted) = 2
  /\ trim_warning_logged /\ packet_stream_size < encoded_file_size
  /\ submitted[1].offset = 0 /\ submitted[2].offset = packet_size
  /\ submitted[2].offset + submitted[2].size = packet_stream_size

\* C17: the pull loop of every hop terminates.  While each DecodeSamples
\* call that returns a value returns exactly the number of samples
\* requested, every request is at least 1, samples_decoded_so_far grows
\* with each pull, and the hop is complete after at most samples_per_hop
\* pulls, after exactly one in non-randomized mode; so DecodeFeatures ends,
\* and when it returns true it has run one hop per packet.
C17_PullLoopTerminates ==
  /\ [][(pc = "pull" /\ pc' = "pull" /\ ~hop_short_return') =>
          /\ samples_to_request' >= 1
          /\ samples_decoded_so_far' > samples_decoded_so_far
          /\ hop_pulls' = hop_pulls + 1
          /\ hop_pulls' <= num_samples_per_packet
          /\ (~randomize_num_samples_requested =>
                /\ hop_pulls' = 1
                /\ ~HopIncomplete(samples_decoded_so_far',
                                  num_samples_per_packet))]_vars
  /\ []((pc = "features_return" /\ features_ok) =>
          encoded_index = (packet_stream_size \div packet_size) * packet_size)
  /\ (([]~hop_short_return) => <>(pc = "done"))

C17_Witness ==
  /\ pc = "pull" /\ randomize_num_samples_requested /\ ~hop_short_return
  /\ hop_pulls = num_samples_per_packet
  /\ samples_decoded_so_far = num_samples_per_packet
  /\ frame_index = 1

====
